---- MODULE Spec2Model ----
(***************************************************************************)
(* A model of jupytext/myst.py: the MyST text form of a notebook.          *)
(*                                                                         *)
(*   dump_yaml_blocks   the metadata encode style policy                   *)
(*   myst_to_notebook   the parser (text -> notebook), one step per token  *)
(*   notebook_to_myst   the serializer (notebook -> text)                  *)
(*   matches_mystnb     the format detector                                *)
(*                                                                         *)
(* Representation.  A Python str is kept as the sequence s.split("\n"):    *)
(* a non-empty sequence of lines, the last one being what follows the last *)
(* newline ("" when the string is empty or ends with a newline).  A line   *)
(* is a record [ind, pre, text, val]: its indentation, its leading marker  *)
(* characters, the word that follows, and the encoded value that follows   *)
(* the word (JSON after "+++", YAML after "key: ").  A JSON value is a     *)
(* record [t, n, s, items]; a mapping keeps its entries as a sequence of   *)
(* [key, value] in key order (dict equality ignores order, yaml.dump sorts *)
(* keys).                                                                  *)
(***************************************************************************)
EXTENDS Integers, Sequences, FiniteSets, TLC

VARIABLES
    pc,                  \* where the program is
    text,                \* the text form handed to the parser or the detector
    nb,                  \* the notebook handed to the serializer
    args,                \* the arguments of dump_yaml_blocks / matches_mystnb
    result,              \* what dump_yaml_blocks / matches_mystnb returned
    parse_context,       \* mistletoe's current (global) parse context
    ncalls,              \* calls of myst_to_notebook made so far
    ignore_bad_meta,     \* myst_to_notebook: parameter
    store_line_numbers,  \* myst_to_notebook: parameter
    original_context,    \* myst_to_notebook: local, line 188
    lines,               \* myst_to_notebook: lines.lines
    tokens,              \* myst_to_notebook: what doc.walk will yield
    item,                \* myst_to_notebook: index of the next token
    notebook,            \* myst_to_notebook: the notebook being built
    current_line,        \* myst_to_notebook: local
    md_metadata,         \* myst_to_notebook: local (pending markdown metadata)
    raised,              \* the exception that left the call ("" when none)
    marker               \* history: raw content of the last boundary marker
                         \* with no fence after it (None when there is none)

vars == <<pc, text, nb, args, result, parse_context, ncalls, ignore_bad_meta,
          store_line_numbers, original_context, lines, tokens, item, notebook,
          current_line, md_metadata, raised, marker>>

-----------------------------------------------------------------------------
(* Bounds of the model.                                                    *)

MaxBlocks == 3       \* blocks of a text given to the parser
MaxCells == 2        \* cells of a notebook given to the serializer
MaxKeys == 2         \* entries of a mapping given to dump_yaml_blocks
MaxDetectBlocks == 2 \* blocks of a text given to the detector
MaxCalls == 2        \* successive calls of myst_to_notebook
MaxContextBlocks == 2 \* blocks of a text parsed in successive calls

-----------------------------------------------------------------------------
(* JSON values.                                                            *)

Val(t, n, s, items) == [t |-> t, n |-> n, s |-> s, items |-> items]
None == Val("nil", 0, "", <<>>)
JInt(n) == Val("int", n, "", <<>>)
JStr(s) == Val("str", 0, s, <<>>)
JList(items) == Val("list", 0, "", items)
JMap(pairs) == Val("map", 0, "", pairs)
Pair(k, v) == [key |-> k, value |-> v]
EmptyMap == JMap(<<>>)

\* isinstance(v, dict)
IsDict(v) == v.t = "map"

\* Python truth value of a JSON value or None
Truthy(v) ==
    CASE v.t = "nil" -> FALSE
      [] v.t = "int" -> v.n # 0
      [] v.t = "str" -> v.s # ""
      [] OTHER -> v.items # <<>>

HasKey(m, k) == IsDict(m) /\ \E i \in 1..Len(m.items) : m.items[i].key = k

\* m.get(k, default)
Get(m, k, default) ==
    IF HasKey(m, k)
    THEN (m.items[CHOOSE i \in 1..Len(m.items) : m.items[i].key = k]).value
    ELSE default

\* m[k] = v on a dict (a new key goes to its place in key order; the keys the
\* code adds, "_source_lines", sort before every alphabetic key)
SetItem(m, k, v) ==
    IF HasKey(m, k)
    THEN JMap([i \in 1..Len(m.items) |->
                 IF m.items[i].key = k THEN Pair(k, v) ELSE m.items[i]])
    ELSE JMap(<<Pair(k, v)>> \o m.items)

-----------------------------------------------------------------------------
(* Encoded text of a value: what json.dumps / a YAML scalar or flow        *)
(* collection puts on a line.  The codecs are library code: a text decodes *)
(* to the value it encodes, in its own format only.                        *)

Enc(fmt, v) == Val(fmt, 0, "", <<v>>)
BadText == Val("bad", 0, "", <<>>)      \* neither JSON nor YAML: "{bad", "[1"
AliasText == Val("alias", 0, "", <<>>)  \* YAML with an undefined alias: "*x"

\* json.dumps
json_dumps(v) == Enc("json", v)

\* json.loads: [err, value]
json_loads(c) ==
    IF c.t = "json" THEN [err |-> "", value |-> c.items[1]]
    ELSE [err |-> "JSONDecodeError", value |-> None]

-----------------------------------------------------------------------------
(* Lines and strings.                                                      *)

Line(ind, pre, word, val) == [ind |-> ind, pre |-> pre, text |-> word, val |-> val]
EmptyLine == Line(0, "", "", None)
SpaceLine == Line(1, "", "", None)          \* a line of blanks only
TextLine(w) == Line(0, "", w, None)

\* not l.strip()
IsBlank(l) == l.pre = "" /\ l.text = "" /\ l.val = None

\* the words whose first character is not alphabetic
NonAlphaWords == {"", "_source_lines", "_k"}

\* l and l[0].isalpha()
StartsAlpha(l) == l.ind = 0 /\ l.pre = "" /\ l.text \notin NonAlphaWords

EmptyStr == <<EmptyLine>>

\* s.endswith("\n")
EndsWithNewline(s) == Len(s) >= 2 /\ s[Len(s)] = EmptyLine

Front(s) == SubSeq(s, 1, Len(s) - 1)

\* s + t (the code only ever appends at a line boundary or appends "\n")
Cat(s, t) ==
    IF s[Len(s)] = EmptyLine THEN Front(s) \o t
    ELSE IF t[1] = EmptyLine THEN s \o Tail(t)
    ELSE Front(s) \o <<s[Len(s)]>> \o t

\* "".join(ls) for lines that each end with "\n"; "\n".join(ls) + "\n"
JoinEnded(ls) == ls \o <<EmptyLine>>

\* "\n".join(ls)
JoinLines(ls) == IF ls = <<>> THEN EmptyStr ELSE ls

\* s.splitlines()
SplitLines(s) == IF s[Len(s)] = EmptyLine THEN Front(s) ELSE s

\* s.startswith(p) for a marker p
StartsWith(s, p) == s[1].ind = 0 /\ s[1].pre = p

RECURSIVE RStripLines(_)
RStripLines(ls) ==
    IF ls = <<>> THEN <<>>
    ELSE IF IsBlank(ls[Len(ls)]) THEN RStripLines(Front(ls))
    ELSE ls

\* s.rstrip()
RStrip(s) == JoinLines(RStripLines(s))

RECURSIVE LStripNewlines(_)
LStripNewlines(s) ==
    IF Len(s) >= 2 /\ s[1] = EmptyLine THEN LStripNewlines(Tail(s)) ELSE s

-----------------------------------------------------------------------------
(* yaml.dump with CompactDumper, and yaml.safe_load.                       *)

\* represent_list: flow style unless an item is a dict
represent_list_flow(v) == ~ \E i \in 1..Len(v.items) : IsDict(v.items[i])

\* a value that yaml.dump writes on the key's own line
OnKeyLine(v) ==
    CASE v.t = "map" -> v.items = <<>>        \* "k: {}"
      [] v.t = "list" -> represent_list_flow(v) \* "k: [1, 2]"
      [] OTHER -> TRUE

RECURSIVE YamlMapLines(_, _)
RECURSIVE YamlPairLines(_, _, _)
YamlPairLines(pairs, i, ind) ==
    IF i > Len(pairs) THEN <<>>
    ELSE LET p == pairs[i]
             here ==
                 IF OnKeyLine(p.value)
                 THEN <<Line(ind, "", p.key, Enc("yaml", p.value))>>
                 ELSE IF p.value.t = "map"
                 THEN <<Line(ind, "", p.key, None)>> \o YamlMapLines(p.value, ind + 1)
                 ELSE <<Line(ind, "", p.key, None)>> \o
                      [j \in 1..Len(p.value.items) |->
                          Line(ind, "- ", "", Enc("yaml", p.value.items[j]))]
         IN  here \o YamlPairLines(pairs, i + 1, ind)
YamlMapLines(m, ind) == YamlPairLines(m.items, 1, ind)

\* yaml.dump(data, Dumper=CompactDumper).splitlines()
yaml_dump_lines(data) ==
    IF data.t = "map" /\ data.items # <<>> THEN YamlMapLines(data, 0)
    ELSE <<Line(0, "{", "", Enc("yaml", data))>>     \* "{}", "[1]", "1"

\* the lines of ls, from position 1, that belong to the entry above them
RECURSIVE Children(_, _)
Children(ls, ind) ==
    IF ls = <<>> THEN 0
    ELSE IF ls[1].ind > ind \/ (ls[1].ind = ind /\ ls[1].pre = "- ")
    THEN 1 + Children(Tail(ls), ind)
    ELSE 0

RECURSIVE YamlLoadPairs(_)
YamlLoadPairs(ls) ==
    IF ls = <<>> THEN <<>>
    ELSE LET h == ls[1]
             rest == Tail(ls)
             n == Children(rest, h.ind)
             sub == SubSeq(rest, 1, n)
             v == IF n = 0 THEN (IF h.val = None THEN None ELSE h.val.items[1])
                  ELSE IF sub[1].pre = "- "
                  THEN JList([j \in 1..n |-> sub[j].val.items[1]])
                  ELSE JMap(YamlLoadPairs(sub))
         IN  <<Pair(h.text, v)>> \o YamlLoadPairs(SubSeq(rest, n + 1, Len(rest)))

YamlLineError(l) ==
    CASE l.val.t = "bad" -> "ParserError"
      [] l.val.t = "alias" -> "ComposerError"
      [] l.pre \notin {"", "- ", "{"} -> "ParserError"
      [] OTHER -> ""

\* yaml.safe_load of a block of lines: [err, value]; the first bad line decides
yaml_load(ls) ==
    LET bad == {i \in 1..Len(ls) : YamlLineError(ls[i]) # ""}
        first == CHOOSE i \in bad : \A j \in bad : i <= j
        body == SelectSeq(ls, LAMBDA l : ~IsBlank(l))
    IN  IF bad # {} THEN [err |-> YamlLineError(ls[first]), value |-> None]
        ELSE IF body = <<>> THEN [err |-> "", value |-> None]
        ELSE IF body[1].pre = "{" THEN [err |-> "", value |-> body[1].val.items[1]]
        ELSE [err |-> "", value |-> JMap(YamlLoadPairs(body))]

-----------------------------------------------------------------------------
(* dump_yaml_blocks (lines 106-126).                                       *)

Delim == Line(0, "---", "", None)

dump_yaml_blocks_nocheck(data, compact) ==
    LET ls == yaml_dump_lines(data)
    IN  IF compact
        THEN JoinLines([i \in 1..Len(ls) |-> [ls[i] EXCEPT !.pre = ":"]])
             \o <<EmptyLine, EmptyLine>>
        ELSE <<Delim>> \o ls \o <<Delim, EmptyLine>>

dump_yaml_blocks(data, compact) ==
    LET ls == yaml_dump_lines(data)
    IN  IF compact /\ \A i \in 1..Len(ls) : StartsAlpha(ls[i])
        THEN JoinLines([i \in 1..Len(ls) |-> [ls[i] EXCEPT !.pre = ":"]])
             \o <<EmptyLine, EmptyLine>>
        ELSE <<Delim>> \o ls \o <<Delim, EmptyLine>>

-----------------------------------------------------------------------------
(* Inputs: mappings.                                                       *)

Scalars == {JInt(1), JStr("python")}
FlatValues == Scalars \cup {JList(<<JInt(1), JInt(2), JInt(3)>>), JList(<<>>), EmptyMap}
NestedValues == {JMap(<<Pair("b", JInt(1))>>), JList(<<JMap(<<Pair("b", JInt(1))>>)>>)}
Values == FlatValues \cup NestedValues
Keys == <<"_k", "a", "b">>     \* in key order

\* the mappings with at most n entries, keys in key order
MappingsUpTo(n) ==
    {JMap(<<>>)} \cup
    UNION {
      { JMap([i \in 1..Len(ks) |-> Pair(Keys[ks[i]], f[i])]) :
          f \in [1..Len(ks) -> Values] } :
      ks \in { s \in UNION {[1..m -> 1..Len(Keys)] : m \in 1..n} :
                 \A i \in 1..Len(s) - 1 : s[i] < s[i + 1] } }

-----------------------------------------------------------------------------
(* The collaborators of the parser: mistletoe's Document.read / doc.walk   *)
(* and myst_parser's parse_directive_text, by their interface.             *)

\* lines 185-186: the directives as a fence names them, braces included
CODE_DIRECTIVE == "{code-cell}"
RAW_DIRECTIVE == "{raw-cell}"

\* the fence marker: stands for three backquotes
TICKS == "~~~"
Fence == Line(0, TICKS, "", None)
FenceOpen(language, lexer) ==
    Line(0, TICKS, language, IF lexer = None THEN None ELSE lexer)
Break(content) == Line(0, "+++", "", content)

Token(kind, first, last, content, language, children) ==
    [kind |-> kind, line_start |-> first, line_end |-> last,
     content |-> content, language |-> language, children |-> children]

\* the first line at or after i that satisfies P, or Len(ls) + 1
Find(ls, i, P(_)) ==
    LET S == {k \in i..Len(ls) : P(ls[k])}
    IN  IF S = {} THEN Len(ls) + 1 ELSE CHOOSE k \in S : \A j \in S : k <= j

IsDelim(l) == l.ind = 0 /\ l.pre = "---"
IsFenceClose(l) == l.ind = 0 /\ l.pre = TICKS /\ l.text = ""

\* Document.read(lines, front_matter=True).front_matter: a block that opens
\* on the first line; [present, content, line_end]
FrontMatter(ls) ==
    IF ls # <<>> /\ IsDelim(ls[1])
    THEN LET j == Find(ls, 2, IsDelim)
         IN  [present |-> TRUE,
              content |-> SubSeq(ls, 2, j - 1),
              line_end |-> IF j > Len(ls) THEN Len(ls) ELSE j]
    ELSE [present |-> FALSE, content |-> <<>>, line_end |-> 0]

\* doc.walk(["CodeFence", "BlockBreak"]): the top-level fences and boundary
\* markers from line i on, in document order (line numbers from 1)
RECURSIVE Walk(_, _)
Walk(ls, i) ==
    IF i > Len(ls) THEN <<>>
    ELSE IF ls[i].ind = 0 /\ ls[i].pre = "+++"
    THEN <<Token("BlockBreak", i, i, ls[i].val, "", <<>>)>> \o Walk(ls, i + 1)
    ELSE IF ls[i].ind = 0 /\ ls[i].pre = TICKS
    THEN LET j == Find(ls, i + 1, IsFenceClose)
             last == IF j > Len(ls) THEN Len(ls) ELSE j
         IN  <<Token("CodeFence", i, last, None, ls[i].text,
                     SubSeq(ls, i + 1, j - 1))>> \o Walk(ls, last + 1)
    ELSE Walk(ls, i + 1)

\* parse_directive_text(MockDirective, "", content, validate_options=False):
\* an option block (delimited by "---", or lines that start with ":") and
\* the body, whose first line is dropped when blank; [err, options, body_lines]
parse_directive_text(content) ==
    LET delimited == content # <<>> /\ IsDelim(content[1])
        colons == content # <<>> /\ content[1].pre = ":"
        close == Find(content, 2, IsDelim)
        IsNotColon(l) == l.pre # ":"
        stop == Find(content, 1, IsNotColon)
        block ==
            IF delimited THEN SubSeq(content, 2, close - 1)
            ELSE IF colons
            THEN [i \in 1..stop - 1 |-> [content[i] EXCEPT !.pre = ""]]
            ELSE <<>>
        rest ==
            IF delimited THEN SubSeq(content, close + 1, Len(content))
            ELSE IF colons THEN SubSeq(content, stop, Len(content))
            ELSE content
        loaded == yaml_load(block)
        body == IF rest # <<>> /\ IsBlank(rest[1]) THEN Tail(rest) ELSE rest
    IN  IF loaded.err = "ParserError"
        THEN [err |-> "DirectiveParsingError", options |-> EmptyMap, body_lines |-> <<>>]
        ELSE IF loaded.err # ""
        THEN [err |-> loaded.err, options |-> EmptyMap, body_lines |-> <<>>]
        ELSE [err |-> "",
              options |-> IF Truthy(loaded.value) THEN loaded.value ELSE EmptyMap,
              body_lines |-> body]

-----------------------------------------------------------------------------
(* myst_to_notebook (lines 154-331).                                       *)

\* _fmt_md (lines 147-151)
fmt_md(s) == LStripNewlines(RStrip(s))

\* lines.lines[a:b], indices from 0
Slice(ls, a, b) == SubSeq(ls, a + 1, IF b > Len(ls) THEN Len(ls) ELSE b)

Cell(type, source, metadata) ==
    [cell_type |-> type, source |-> source, metadata |-> metadata]

SourceLines(a, b) == JList(<<JInt(a), JInt(b)>>)

\* The frame of a call: [cells, current_line, md_metadata, raised].
\* A markdown cell for lines [current_line, upto) when the text there is not
\* empty (lines 218-232 and 279-293).  new_markdown_cell of nbformat may or
\* may not validate the metadata it is given: validates is that choice.
FlushAlways(fr, ls, upto, store, validates) ==
    LET source == fmt_md(JoinEnded(Slice(ls, fr.current_line, upto)))
        meta == IF store
                THEN SetItem(fr.md_metadata, "_source_lines",
                             SourceLines(fr.current_line, upto))
                ELSE fr.md_metadata
    IN  IF store /\ ~IsDict(fr.md_metadata)
        THEN [fr EXCEPT !.raised = "TypeError"]
        ELSE IF ~IsDict(fr.md_metadata) /\ validates
        THEN [fr EXCEPT !.raised = "ValidationError"]
        ELSE [fr EXCEPT !.md_metadata = meta,
                        !.cells = Append(@, Cell("markdown", source, meta))]

Flush(fr, ls, upto, store, validates) ==
    LET source == fmt_md(JoinEnded(Slice(ls, fr.current_line, upto)))
    IN  IF source # EmptyStr
        THEN FlushAlways(fr, ls, upto, store, validates)
        ELSE fr

\* lines 233-252: the pending metadata after a boundary marker
BreakMetadata(token, ignore) ==
    LET loaded == json_loads(token.content)
    IN  IF token.content = None THEN [err |-> "", value |-> EmptyMap]
        ELSE IF loaded.err # ""
        THEN [err |-> IF ignore THEN "" ELSE "MystMetadataParsingError",
              value |-> EmptyMap]
        ELSE IF ~IsDict(loaded.value)
        THEN [err |-> IF ignore THEN "" ELSE "MystMetadataParsingError",
              value |-> loaded.value]
        ELSE [err |-> "", value |-> loaded.value]

\* lines 216-253
OnBlockBreak(fr, token, ls, ignore, store, validates) ==
    LET flushed == Flush(fr, ls, token.line_start - 1, store, validates)
        meta == BreakMetadata(token, ignore)
    IN  IF flushed.raised # "" THEN flushed
        ELSE IF meta.err # "" THEN [flushed EXCEPT !.raised = meta.err]
        ELSE [flushed EXCEPT !.md_metadata = meta.value,
                             !.current_line = token.line_start]

\* lines 254-314
OnCodeFence(fr, token, ls, ignore, store, validates) ==
    LET parsed == parse_directive_text(token.children)
        options == IF parsed.err = "" THEN parsed.options ELSE EmptyMap
        body_lines == IF parsed.err = "" THEN parsed.body_lines ELSE <<>>
        flushed == Flush(fr, ls, token.line_start - 1, store, validates)
        cell_metadata ==
            IF store
            THEN SetItem(options, "_source_lines",
                         SourceLines(token.line_start, token.line_end))
            ELSE options
        type == IF token.language = CODE_DIRECTIVE THEN "code" ELSE "raw"
    IN  IF parsed.err = "DirectiveParsingError" /\ ~ignore
        THEN [fr EXCEPT !.raised = "MystMetadataParsingError"]
        ELSE IF parsed.err \notin {"", "DirectiveParsingError"}
        THEN [fr EXCEPT !.raised = parsed.err]
        ELSE IF flushed.raised # "" THEN flushed
        ELSE [flushed EXCEPT
                !.current_line = token.line_end,
                !.md_metadata = EmptyMap,
                !.cells = Append(@, Cell(type, JoinLines(body_lines), cell_metadata))]

IsDirective(token) ==
    token.kind = "CodeFence" /\ token.language \in {CODE_DIRECTIVE, RAW_DIRECTIVE}

\* the body of the for loop, lines 215-314
OnToken(fr, token, ls, ignore, store, validates) ==
    IF token.kind = "BlockBreak"
    THEN OnBlockBreak(fr, token, ls, ignore, store, validates)
    ELSE IF IsDirective(token)
    THEN OnCodeFence(fr, token, ls, ignore, store, validates)
    ELSE fr

\* lines 316-326: the final markdown cell
FinalFlush(fr, ls, store, validates) ==
    IF Slice(ls, fr.current_line, Len(ls)) # <<>>
    THEN FlushAlways(fr, ls, Len(ls), store, validates)
    ELSE fr

\* lines 201-213: the front matter and the frame the walk starts from;
\* [raised, metadata, frame]
ReadFrontMatter(ls, ignore) ==
    LET fm == FrontMatter(ls)
        loaded == yaml_load(fm.content)
        err == IF ~fm.present \/ loaded.err = "" THEN ""
               ELSE IF loaded.err = "ParserError"
               THEN (IF ignore THEN "" ELSE "MystMetadataParsingError")
               ELSE loaded.err
        metadata_nb == IF fm.present /\ loaded.err = "" THEN loaded.value
                       ELSE EmptyMap
    IN  [metadata |-> metadata_nb,
         frame |-> [cells |-> <<>>,
                    current_line |-> IF fm.present THEN fm.line_end ELSE 0,
                    md_metadata |-> EmptyMap,
                    raised |-> err]]

\* lines 328-329: the parse context a call leaves behind
ContextAtExitUnlessRaised(original, installed, err) ==
    IF err # "" THEN installed ELSE original

ContextAtExit(original, installed, err) == original

-----------------------------------------------------------------------------
(* The steps of a call of myst_to_notebook.  An exception runs the finally *)
(* clause and leaves the call in the step that raises it.                  *)

Frame == [cells |-> notebook.cells, current_line |-> current_line,
          md_metadata |-> md_metadata, raised |-> ""]

\* contexts: 0 is the default one, 1 one the caller installed, 2 + n the
\* ParseContext() made by call n
Installed == 2 + ncalls

Store(fr) ==
    /\ notebook' = [notebook EXCEPT !.cells = fr.cells]
    /\ current_line' = fr.current_line
    /\ md_metadata' = fr.md_metadata
    /\ raised' = fr.raised
    /\ IF fr.raised # ""
       THEN /\ pc' = "raised"
            /\ parse_context' = ContextAtExit(original_context, parse_context, fr.raised)
            /\ UNCHANGED item
       ELSE /\ pc' = "walk"
            /\ item' = item + 1
            /\ UNCHANGED parse_context

\* lines 185-213
MystCall(ignore, store) ==
    /\ pc = "idle"
    /\ ncalls < MaxCalls
    /\ LET ls == SplitLines(text)
           read == ReadFrontMatter(ls, ignore)
       IN  /\ ignore_bad_meta' = ignore
           /\ store_line_numbers' = store
           /\ original_context' = parse_context
           /\ lines' = ls
           /\ ncalls' = ncalls + 1
           /\ notebook' = [metadata |-> read.metadata, cells |-> <<>>]
           /\ current_line' = read.frame.current_line
           /\ md_metadata' = read.frame.md_metadata
           /\ tokens' = Walk(ls, read.frame.current_line + 1)
           /\ item' = 1
           /\ raised' = read.frame.raised
           /\ marker' = None
           /\ IF read.frame.raised # ""
              THEN /\ pc' = "raised"
                   /\ parse_context' =
                        ContextAtExit(parse_context, Installed, read.frame.raised)
              ELSE /\ pc' = "walk"
                   /\ parse_context' = Installed

Call ==
    /\ \E ignore \in BOOLEAN, store \in BOOLEAN : MystCall(ignore, store)
    /\ UNCHANGED <<text, nb, args, result>>

\* lines 216-253
WalkBlockBreak ==
    /\ pc = "walk"
    /\ item <= Len(tokens)
    /\ tokens[item].kind = "BlockBreak"
    /\ \E validates \in BOOLEAN :
         LET fr == OnToken(Frame, tokens[item], lines, ignore_bad_meta,
                           store_line_numbers, validates)
         IN  /\ Store(fr)
             /\ marker' = IF fr.raised = "" THEN tokens[item].content ELSE marker
    /\ UNCHANGED <<text, nb, args, result, ncalls, ignore_bad_meta,
                   store_line_numbers, original_context, lines, tokens>>

\* lines 254-314
WalkCodeFence ==
    /\ pc = "walk"
    /\ item <= Len(tokens)
    /\ IsDirective(tokens[item])
    /\ \E validates \in BOOLEAN :
         LET fr == OnToken(Frame, tokens[item], lines, ignore_bad_meta,
                           store_line_numbers, validates)
         IN  /\ Store(fr)
             /\ marker' = IF fr.raised = "" THEN None ELSE marker
    /\ UNCHANGED <<text, nb, args, result, ncalls, ignore_bad_meta,
                   store_line_numbers, original_context, lines, tokens>>

\* a fence in another language: neither branch of the loop body
WalkOtherFence ==
    /\ pc = "walk"
    /\ item <= Len(tokens)
    /\ tokens[item].kind = "CodeFence"
    /\ ~IsDirective(tokens[item])
    /\ Store(OnToken(Frame, tokens[item], lines, ignore_bad_meta,
                     store_line_numbers, FALSE))
    /\ UNCHANGED <<text, nb, args, result, ncalls, ignore_bad_meta,
                   store_line_numbers, original_context, lines, tokens, marker>>

\* lines 316-331
Finish ==
    /\ pc = "walk"
    /\ item > Len(tokens)
    /\ \E validates \in BOOLEAN :
         LET fr == FinalFlush(Frame, lines, store_line_numbers, validates)
         IN  /\ notebook' = [notebook EXCEPT !.cells = fr.cells]
             /\ md_metadata' = fr.md_metadata
             /\ raised' = fr.raised
             /\ pc' = IF fr.raised # "" THEN "raised" ELSE "returned"
             /\ parse_context' =
                  ContextAtExit(original_context, parse_context, fr.raised)
    /\ UNCHANGED <<text, nb, args, result, ncalls, ignore_bad_meta,
                   store_line_numbers, original_context, lines, tokens, item,
                   current_line, marker>>

-----------------------------------------------------------------------------
(* Inputs: texts.                                                          *)

SomeMap == JMap(<<Pair("a", JInt(1))>>)

BlockKinds == {"T", "B", "K0", "K1", "K2", "K3", "FC", "FR", "FB", "FP"}

BlockLines(k) ==
    CASE k = "T" -> <<TextLine("A")>>
      [] k = "B" -> <<EmptyLine>>
      [] k = "K0" -> <<Break(None)>>                            \* +++
      [] k = "K1" -> <<Break(json_dumps(SomeMap))>>             \* +++ {"a": 1}
      [] k = "K2" -> <<Break(json_dumps(JList(<<JInt(1)>>)))>>  \* +++ [1]
      [] k = "K3" -> <<Break(BadText)>>                         \* +++ {bad
      [] k = "FC" -> <<FenceOpen(CODE_DIRECTIVE, None), TextLine("x"), Fence>>
      [] k = "FR" -> <<FenceOpen(RAW_DIRECTIVE, None),
                      Line(0, ":", "b", Enc("yaml", JInt(1))), TextLine("x"), Fence>>
      [] k = "FB" -> <<FenceOpen(CODE_DIRECTIVE, JStr("python")),
                      Line(0, ":", "b", BadText), TextLine("x"), Fence>>
      [] k = "FP" -> <<FenceOpen("python", None), Break(None), Fence>>

FrontKinds == {"none", "good", "bad", "alias"}

FrontLines(k) ==
    CASE k = "none" -> <<>>
      [] k = "good" -> <<Delim, Line(0, "", "a", Enc("yaml", JInt(1))), Delim>>
      [] k = "bad" -> <<Delim, Line(0, "", "a", BadText), Delim>>
      [] k = "alias" -> <<Delim, Line(0, "", "a", AliasText), Delim>>

RECURSIVE Concat(_)
Concat(ss) == IF ss = <<>> THEN <<>> ELSE ss[1] \o Concat(Tail(ss))

\* the texts made of a front matter and at most n blocks
Texts(fronts, kinds, n) ==
    { JoinEnded(FrontLines(f) \o Concat([i \in 1..Len(bs) |-> BlockLines(bs[i])])) :
        f \in fronts, bs \in UNION {[1..m -> kinds] : m \in 0..n} }

-----------------------------------------------------------------------------
(* Specification of the parser on a text.                                  *)

NoCall ==
    /\ parse_context = 0 /\ ncalls = 0
    /\ ignore_bad_meta = FALSE /\ store_line_numbers = FALSE
    /\ original_context = 0 /\ lines = <<>> /\ tokens = <<>> /\ item = 1
    /\ notebook = None /\ current_line = 0 /\ md_metadata = EmptyMap
    /\ raised = "" /\ marker = None

InitParse ==
    /\ NoCall
    /\ pc = "idle"
    /\ text \in Texts(FrontKinds, BlockKinds, MaxBlocks)
    /\ nb = None /\ args = None /\ result = None

NextParse ==
    \/ Call
    \/ WalkBlockBreak
    \/ WalkCodeFence
    \/ WalkOtherFence
    \/ Finish

SpecParse == InitParse /\ [][NextParse]_vars

-----------------------------------------------------------------------------
(* notebook_to_myst (lines 334-393).                                       *)

NL == <<EmptyLine, EmptyLine>>      \* "\n"

\* s, then "\n" unless s ends with one (lines 367-369, 384-386)
WithNewline(string, source) ==
    LET added == Cat(string, source)
    IN  IF EndsWithNewline(source) THEN added ELSE Cat(added, NL)

\* line 362, without the test of last_cell_md
NeedsMarkerForMetadataOnly(metadata, last_cell_md) == Truthy(metadata)

\* line 362
NeedsMarker(metadata, last_cell_md) == Truthy(metadata) \/ last_cell_md

\* lines 360-370
MarkdownText(string, cell, last_cell_md) ==
    LET marked ==
            IF NeedsMarker(cell.metadata, last_cell_md)
            THEN IF Truthy(cell.metadata)
                 THEN Cat(string, <<EmptyLine, Break(json_dumps(cell.metadata)), EmptyLine>>)
                 ELSE Cat(string, <<EmptyLine, Break(None), EmptyLine>>)
            ELSE string
    IN  WithNewline(Cat(marked, NL), cell.source)

\* lines 372-388
FencedText(string, cell, pygments_lexer) ==
    LET directive == IF cell.cell_type = "code" THEN CODE_DIRECTIVE ELSE RAW_DIRECTIVE
        lexer == IF Truthy(pygments_lexer) /\ cell.cell_type = "code"
                 THEN pygments_lexer ELSE None
        opened == Cat(string, <<EmptyLine, FenceOpen(directive, lexer), EmptyLine>>)
        options ==
            IF Truthy(cell.metadata)
            THEN Cat(opened, dump_yaml_blocks(cell.metadata, TRUE))
            ELSE IF StartsWith(cell.source, "---") \/ StartsWith(cell.source, ":")
            THEN Cat(opened, NL)
            ELSE opened
    IN  Cat(WithNewline(options, cell.source), <<Fence, EmptyLine>>)

\* the loop of lines 358-391: [string, last_cell_md, raised]
RECURSIVE CellsText(_, _, _, _)
CellsText(acc, cells, i, pygments_lexer) ==
    IF acc.raised # "" \/ i > Len(cells) THEN acc
    ELSE LET cell == cells[i]
             next ==
                 IF cell.cell_type = "markdown"
                 THEN [string |-> MarkdownText(acc.string, cell, acc.last_cell_md),
                       last_cell_md |-> TRUE, raised |-> ""]
                 ELSE IF cell.cell_type \in {"code", "raw"}
                 THEN [string |-> FencedText(acc.string, cell, pygments_lexer),
                       last_cell_md |-> FALSE, raised |-> ""]
                 ELSE [acc EXCEPT !.raised = "NotImplementedError"]
         IN  CellsText(next, cells, i + 1, pygments_lexer)

\* [raised, string]
notebook_to_myst(doc, default_lexer) ==
    LET nb_metadata == doc.metadata
        found == Get(Get(nb_metadata, "language_info", EmptyMap),
                     "pygments_lexer", None)
        pygments_lexer == IF found = None THEN default_lexer ELSE found
        front == IF Truthy(nb_metadata)
                 THEN Cat(EmptyStr, dump_yaml_blocks(nb_metadata, FALSE))
                 ELSE EmptyStr
        done == CellsText([string |-> front, last_cell_md |-> FALSE, raised |-> ""],
                          doc.cells, 1, pygments_lexer)
    IN  [raised |-> done.raised,
         string |-> IF done.raised # "" THEN EmptyStr ELSE Cat(RStrip(done.string), NL)]

-----------------------------------------------------------------------------
(* Inputs: notebooks.                                                      *)

NestedMap == JMap(<<Pair("a", JMap(<<Pair("b", JInt(1))>>))>>)
LexerMap ==
    JMap(<<Pair("language_info", JMap(<<Pair("pygments_lexer", JStr("python"))>>))>>)

MdSources ==
    { EmptyStr,                          \* ""
      <<TextLine("A")>>,                 \* "A"
      <<TextLine("A"), EmptyLine>>,      \* "A\n"
      <<TextLine("A"), TextLine("B")>>,  \* "A\nB"
      <<EmptyLine, TextLine("A")>>,      \* "\nA"
      <<SpaceLine>>,                     \* " "
      <<Break(None)>> }                  \* "+++"

CodeSources ==
    { EmptyStr,
      <<TextLine("x")>>,                              \* "x"
      <<TextLine("x"), EmptyLine>>,                   \* "x\n"
      <<Line(0, ":", "x", None)>> }                   \* ":x"

CellKinds ==
    { Cell("markdown", src, m) : src \in MdSources, m \in {EmptyMap, SomeMap} }
    \cup { Cell("code", src, m) : src \in CodeSources, m \in {EmptyMap, SomeMap, NestedMap} }
    \cup { Cell("raw", <<TextLine("x")>>, EmptyMap) }

Notebooks(n) ==
    [metadata : {EmptyMap, LexerMap},
     cells : UNION {[1..m -> CellKinds] : m \in 0..n}]

-----------------------------------------------------------------------------
(* Specification of the round trip: notebook_to_myst, then myst_to_notebook *)
(* with its default parameters.                                            *)

InitRoundTrip ==
    /\ NoCall
    /\ pc = "notebook"
    /\ nb \in Notebooks(MaxCells)
    /\ text = EmptyStr /\ args = None /\ result = None

NotebookToMyst ==
    /\ pc = "notebook"
    /\ LET out == notebook_to_myst(nb, None)
       IN  /\ text' = out.string
           /\ raised' = out.raised
           /\ pc' = IF out.raised # "" THEN "raised" ELSE "idle"
    /\ UNCHANGED <<nb, args, result, parse_context, ncalls, ignore_bad_meta,
                   store_line_numbers, original_context, lines, tokens, item,
                   notebook, current_line, md_metadata, marker>>

CallDefault ==
    /\ MystCall(FALSE, FALSE)
    /\ UNCHANGED <<text, nb, args, result>>

NextRoundTrip ==
    \/ NotebookToMyst
    \/ CallDefault
    \/ WalkBlockBreak
    \/ WalkCodeFence
    \/ Finish

SpecRoundTrip == InitRoundTrip /\ [][NextRoundTrip]_vars

-----------------------------------------------------------------------------
(* Specification of successive calls of the parser, for the parse context. *)

InitContext ==
    /\ NoCall
    /\ pc = "idle"
    /\ text \in Texts(FrontKinds, BlockKinds, MaxContextBlocks)
    /\ nb = None /\ args = [context |-> 0] /\ result = None

\* the caller enters or leaves a parse context of its own
CallerSetsContext ==
    /\ pc = "idle"
    /\ parse_context' = 1 - parse_context
    /\ UNCHANGED <<pc, text, nb, args, result, ncalls, ignore_bad_meta,
                   store_line_numbers, original_context, lines, tokens, item,
                   notebook, current_line, md_metadata, raised, marker>>

\* the caller notes its context and calls
CallerCalls ==
    /\ \E ignore \in BOOLEAN, store \in BOOLEAN : MystCall(ignore, store)
    /\ args' = [context |-> parse_context]
    /\ UNCHANGED <<text, nb, result>>

\* the caller has the notebook or the exception, and goes on
CallerGoesOn ==
    /\ pc \in {"returned", "raised"}
    /\ pc' = "idle"
    /\ lines' = <<>> /\ tokens' = <<>> /\ item' = 1 /\ notebook' = None
    /\ current_line' = 0 /\ md_metadata' = EmptyMap /\ raised' = ""
    /\ marker' = None /\ ignore_bad_meta' = FALSE /\ store_line_numbers' = FALSE
    /\ original_context' = 0
    /\ UNCHANGED <<text, nb, args, result, parse_context, ncalls>>

NextContext ==
    \/ CallerSetsContext
    \/ CallerCalls
    \/ WalkBlockBreak
    \/ WalkCodeFence
    \/ WalkOtherFence
    \/ Finish
    \/ CallerGoesOn

SpecContext == InitContext /\ [][NextContext]_vars

-----------------------------------------------------------------------------
(* matches_mystnb (lines 38-86).  An extension is kept as ext.split("."):  *)
(* ".myst" is <<"", "myst">>, "myst" is <<"myst">>, None is <<>>.          *)

MYST_FORMAT_NAME == "myst"
NoExt == <<>>

\* myst_extensions (lines 31-35), each without its dot
myst_extensions(no_md) ==
    IF no_md THEN {"myst", "mystnb", "mnb"} ELSE {"md", "myst", "mystnb", "mnb"}

\* line 55: ext and "." + ("." + ext).rsplit(".", 1)[1] in myst_extensions(no_md=True)
ReservedExt(ext) ==
    /\ ext \notin {NoExt, <<"">>}
    /\ ext[Len(ext)] \in myst_extensions(TRUE)

\* jupytext.formats.format_name_for_ext: the format the metadata names;
\* [err, name]
format_name_for_ext(metadata) ==
    IF ~IsDict(metadata) THEN [err |-> "AttributeError", name |-> None]
    ELSE [err |-> "",
          name |-> Get(Get(Get(metadata, "jupytext", EmptyMap),
                           "text_representation", EmptyMap),
                       "format_name", None)]

HasNonMarkdown(doc) ==
    \E i \in 1..Len(doc.cells) : doc.cells[i].cell_type # "markdown"

Verdict(err, accepted, doc) ==
    [raised |-> err, accepted |-> accepted, nb |-> doc]

\* lines 74-86, with the two tests in the other order
DecideNonMarkdownFirst(doc, require_non_md, return_nb) ==
    LET out == IF return_nb THEN doc ELSE None
    IN  IF require_non_md /\ ~HasNonMarkdown(doc) THEN Verdict("", FALSE, None)
        ELSE Verdict("", TRUE, out)

\* lines 74-86
Decide(doc, require_non_md, return_nb) ==
    LET named == format_name_for_ext(doc.metadata)
        out == IF return_nb THEN doc ELSE None
    IN  IF named.err = "" /\ named.name = JStr(MYST_FORMAT_NAME)
        THEN Verdict("", TRUE, out)
        ELSE IF require_non_md /\ ~HasNonMarkdown(doc) THEN Verdict("", FALSE, None)
        ELSE Verdict("", TRUE, out)

-----------------------------------------------------------------------------
(* Specification of the detector on a text.                                *)

MystFront ==
    <<Delim,
      Line(0, "", "jupytext", None),
      Line(1, "", "text_representation", None),
      Line(2, "", "format_name", Enc("yaml", JStr(MYST_FORMAT_NAME))),
      Delim>>

ListFront == <<Delim, Line(0, "{", "", Enc("yaml", JList(<<JInt(1)>>))), Delim>>

DetectTexts(n) ==
    Texts({"none", "good", "bad"}, {"T", "K2", "FC"}, n)
    \cup { JoinEnded(f \o Concat([i \in 1..Len(bs) |-> BlockLines(bs[i])])) :
             f \in {MystFront, ListFront},
             bs \in UNION {[1..m -> {"T", "K2", "FC"}] : m \in 0..n} }

Exts ==
    { NoExt,
      <<"", "md">>,        \* ".md"
      <<"", "ipynb">>,     \* ".ipynb"
      <<"", "myst">>,      \* ".myst"
      <<"mystnb">>,        \* "mystnb"
      <<"nb", "mnb">> }    \* "nb.mnb"

InitDetect ==
    /\ NoCall
    /\ pc = "detect"
    /\ text \in DetectTexts(MaxDetectBlocks)
    /\ nb = None /\ args = None /\ result = None

\* lines 55-64: the verdicts reached without parsing, or the way to the
\* call of myst_to_notebook (pc = "idle")
MatchesMystnb ==
    /\ pc = "detect"
    /\ \E a \in [ext : Exts, requires_meta : BOOLEAN, require_non_md : BOOLEAN,
                 return_nb : BOOLEAN, store_line_numbers : BOOLEAN] :
         /\ args' = a
         /\ IF ReservedExt(a.ext)
            THEN IF a.return_nb
                 THEN pc' = "idle" /\ result' = None
                 ELSE pc' = "detected" /\ result' = Verdict("", TRUE, None)
            ELSE IF a.requires_meta /\ ~StartsWith(text, "---")
            THEN pc' = "detected" /\ result' = Verdict("", FALSE, None)
            ELSE pc' = "idle" /\ result' = None
    /\ UNCHANGED <<text, nb, parse_context, ncalls, ignore_bad_meta,
                   store_line_numbers, original_context, lines, tokens, item,
                   notebook, current_line, md_metadata, raised, marker>>

\* lines 57-59 and 66-68: myst_to_notebook(text, ignore_bad_meta=True,
\* store_line_numbers=store_line_numbers)
DetectorCalls ==
    /\ MystCall(TRUE, args.store_line_numbers)
    /\ UNCHANGED <<text, nb, args, result>>

\* lines 56-62 (the call is not in a try) and 65-86 (it is)
MatchesMystnbReturns ==
    /\ pc \in {"returned", "raised"}
    /\ result' =
         IF ReservedExt(args.ext)
         THEN Verdict(raised, raised = "", IF raised = "" THEN notebook ELSE None)
         ELSE IF raised # "" THEN Verdict("", FALSE, None)
         ELSE Decide(notebook, args.require_non_md, args.return_nb)
    /\ pc' = "detected"
    /\ UNCHANGED <<text, nb, args, parse_context, ncalls, ignore_bad_meta,
                   store_line_numbers, original_context, lines, tokens, item,
                   notebook, current_line, md_metadata, raised, marker>>

NextDetect ==
    \/ MatchesMystnb
    \/ DetectorCalls
    \/ WalkBlockBreak
    \/ WalkCodeFence
    \/ Finish
    \/ MatchesMystnbReturns

SpecDetect == InitDetect /\ [][NextDetect]_vars

-----------------------------------------------------------------------------
(* Specification of dump_yaml_blocks called on its own.                    *)

InitDump ==
    /\ NoCall
    /\ text = EmptyStr /\ nb = None
    /\ pc = "dump"
    /\ args \in [data : MappingsUpTo(MaxKeys), compact : BOOLEAN]
    /\ result = None

DumpYamlBlocks ==
    /\ pc = "dump"
    /\ result' = dump_yaml_blocks(args.data, args.compact)
    /\ pc' = "dumped"
    /\ UNCHANGED <<text, nb, args, parse_context, ncalls, ignore_bad_meta,
                   store_line_numbers, original_context, lines, tokens, item,
                   notebook, current_line, md_metadata, raised, marker>>

NextDump == DumpYamlBlocks
SpecDump == InitDump /\ [][NextDump]_vars

-----------------------------------------------------------------------------
(* The claims.                                                             *)

\* a source without one trailing newline
StripOneNewline(s) == IF EndsWithNewline(s) THEN Front(s) ELSE s

SameSource(a, b) == StripOneNewline(a) = StripOneNewline(b)

SameCells(a, b) ==
    /\ Len(a) = Len(b)
    /\ \A i \in 1..Len(a) :
         /\ a[i].cell_type = b[i].cell_type
         /\ a[i].metadata = b[i].metadata
         /\ SameSource(a[i].source, b[i].source)

\* C1: the round trip is the identity: myst_to_notebook(notebook_to_myst(d))
\* returns a notebook with d's metadata and d's cells (types, metadata and
\* sources, a source compared without one trailing newline).
C1_RoundTripIdentity ==
    (pc \in {"returned", "raised"}) =>
        /\ raised = ""
        /\ notebook.metadata = nb.metadata
        /\ SameCells(notebook.cells, nb.cells)

\* a metadata fragment of the text that does not decode to a mapping
MalformedLine(l) ==
    \/ l.val.t \in {"bad", "alias"}
    \/ l.pre = "+++" /\ l.val # None /\ ~IsDict(json_loads(l.val).value)

HasMalformedMetadata(ls) == \E i \in 1..Len(ls) : MalformedLine(ls[i])

\* C2: on a text with a malformed metadata fragment, the parser with
\* ignore_bad_meta=True returns a notebook and never fails, and with
\* ignore_bad_meta=False it fails with MystMetadataParsingError and with no
\* other error.
C2_TolerantNeverRaises ==
    (pc \in {"returned", "raised"} /\ HasMalformedMetadata(lines)) =>
        IF ignore_bad_meta THEN pc = "returned" /\ raised = ""
        ELSE pc = "raised" /\ raised = "MystMetadataParsingError"

MarkerDecodesToMapping ==
    /\ marker # None
    /\ json_loads(marker).err = ""
    /\ IsDict(json_loads(marker).value)

\* C3: with ignore_bad_meta=True, after a boundary marker whose content does
\* not decode to a mapping the pending metadata is the empty mapping, and
\* every cell of the returned notebook has a mapping as its metadata.
C3_TolerantMetadataIsMapping ==
    /\ (pc = "walk" /\ ignore_bad_meta /\ marker # None /\ ~MarkerDecodesToMapping)
          => md_metadata = EmptyMap
    /\ (pc = "returned" /\ ignore_bad_meta)
          => \A i \in 1..Len(notebook.cells) : IsDict(notebook.cells[i].metadata)

\* a markdown source the parser reads back as it is: no line that is a
\* boundary marker, a fence or a "---" line, no blank line first, and no
\* trailing whitespace but one newline
PlainSource(s) ==
    LET c == StripOneNewline(s)
    IN  /\ \A i \in 1..Len(c) : c[i].pre = ""
        /\ c[1] # EmptyLine
        /\ ~IsBlank(c[Len(c)])

TwoMarkdownCells ==
    /\ nb # None
    /\ Len(nb.cells) = 2
    /\ \A i \in 1..2 : /\ nb.cells[i].cell_type = "markdown"
                       /\ nb.cells[i].metadata = EmptyMap
                       /\ nb.cells[i].source # EmptyStr

\* the text ends, up to trailing whitespace, with the first source, a blank
\* line, a bare boundary marker, a blank line and the second source
BareMarkerBetween ==
    LET ls == RStripLines(SplitLines(text))
        first == StripOneNewline(nb.cells[1].source)
        second == StripOneNewline(nb.cells[2].source)
        end == RStripLines(<<EmptyLine>> \o first
                           \o <<EmptyLine, Break(None), EmptyLine>> \o second)
    IN  /\ Len(ls) >= Len(end)
        /\ SubSeq(ls, Len(ls) - Len(end) + 1, Len(ls)) = end

ReadBackAsTwoCells ==
    /\ raised = ""
    /\ notebook.cells =
         [i \in 1..2 |-> Cell("markdown", StripOneNewline(nb.cells[i].source), EmptyMap)]

C5_ContextRestored ==
    /\ (pc = "walk") => /\ parse_context \notin {0, 1}
                        /\ original_context = args.context
    /\ (pc \in {"returned", "raised"}) => parse_context = args.context
    /\ (pc = "idle") => parse_context \in {0, 1}

C5_Witness ==
    /\ pc = "raised"
    /\ raised = "TypeError"
    /\ item > 1
    /\ ncalls >= 2
    /\ args.context = 1
    /\ parse_context = 1

\* C6: with a reserved extension the detector accepts whatever the text and
\* the other parameters are: it returns True, or the parsed notebook when
\* return_nb is set, and never rejects or fails.
C6_ReservedExtAlwaysAccepts ==
    (pc = "detected" /\ ReservedExt(args.ext)) =>
        /\ result.raised = ""
        /\ result.accepted
        /\ args.return_nb => result.nb # None

NamesMyst(doc) ==
    /\ HasKey(doc.metadata, "jupytext")
    /\ Get(Get(Get(doc.metadata, "jupytext", None), "text_representation", None),
           "format_name", None) = JStr("myst")

\* C7: with no reserved extension the detector never raises, and it rejects
\* a text that lacks the front matter it requires (without parsing it), else
\* rejects a text the tolerant parser fails on, else accepts a notebook whose
\* metadata names the format, else, when a non-markdown cell is required,
\* accepts exactly when there is one, else accepts.
C7_DetectorRule ==
    (pc = "detected" /\ ~ReservedExt(args.ext)) =>
        LET unmet == args.requires_meta /\ ~(text[1].pre = "---")
            expected ==
                IF unmet THEN FALSE
                ELSE IF raised # "" THEN FALSE
                ELSE IF NamesMyst(notebook) THEN TRUE
                ELSE IF args.require_non_md
                THEN \E i \in 1..Len(notebook.cells) :
                        notebook.cells[i].cell_type \in {"code", "raw"}
                ELSE TRUE
        IN  /\ result.raised = ""
            /\ result.accepted = expected
            /\ IF unmet THEN ncalls = 0 ELSE ncalls = 1 /\ ignore_bad_meta
            /\ result.nb = IF expected /\ args.return_nb THEN notebook ELSE None

C7_Witness ==
    /\ pc = "detected"
    /\ args.ext = <<"", "md">>
    /\ args.require_non_md
    /\ args.requires_meta
    /\ text = JoinEnded(MystFront \o <<TextLine("A")>>)
    /\ result.accepted
    /\ ncalls = 1

\* the dump has a line per entry, each starting with a letter
EveryLineAlphabetic(data) ==
    /\ data.items # <<>>
    /\ \A i \in 1..Len(data.items) :
         LET e == data.items[i]
         IN  /\ e.key \notin NonAlphaWords
             /\ e.value.t = "map" => e.value.items = <<>>
             /\ e.value.t = "list" =>
                    \A j \in 1..Len(e.value.items) : e.value.items[j].t # "map"

\* lines prefixed with ":", no delimiter line, then a blank separator line
CompactForm(out) ==
    /\ Len(out) >= 3
    /\ out[Len(out)] = EmptyLine
    /\ out[Len(out) - 1] = EmptyLine
    /\ \A i \in 1..Len(out) - 2 : out[i].ind = 0 /\ out[i].pre = ":"

\* the dump between a "---" line and a "---" line
BlockForm(out) ==
    /\ Len(out) >= 4
    /\ out[1] = Delim
    /\ out[Len(out) - 1] = Delim
    /\ out[Len(out)] = EmptyLine
    /\ \A i \in 2..Len(out) - 2 : out[i].pre # ":" /\ out[i] # Delim

FlatExample == JMap(<<Pair("a", JInt(1)), Pair("b", JList(<<JInt(1), JInt(2), JInt(3)>>))>>)

\* C8: dump_yaml_blocks emits the compact form exactly when compact is asked
\* for and every line of the dump starts with a letter, and the block form
\* otherwise; {a: 1, b: [1,2,3]} is compact, {a: {b: 1}} is a block, and with
\* compact=False the result is never compact.
C8_StylePolicy ==
    (pc = "dumped") =>
        /\ CompactForm(result) <=> (args.compact /\ EveryLineAlphabetic(args.data))
        /\ ~CompactForm(result) => BlockForm(result)
        /\ (args.compact /\ args.data = FlatExample) =>
              result = <<Line(0, ":", "a", Enc("yaml", JInt(1))),
                         Line(0, ":", "b", Enc("yaml", JList(<<JInt(1), JInt(2), JInt(3)>>))),
                         EmptyLine, EmptyLine>>
        /\ (args.data = NestedMap) => BlockForm(result)

C8_Witness ==
    /\ pc = "dumped"
    /\ args.compact
    /\ args.data = FlatExample
    /\ CompactForm(result)

\* C9: in every state of the walk the pending markdown metadata is empty or
\* is the mapping of the most recent boundary marker with no fence after it.
C9_PendingMetadataDiscipline ==
    (pc = "walk") =>
        \/ md_metadata = EmptyMap
        \/ MarkerDecodesToMapping /\ md_metadata = json_loads(marker).value

\* C10: every markdown cell the parser emits has a non-empty source.
C10_NoEmptyMarkdownCell ==
    (notebook # None) =>
        \A i \in 1..Len(notebook.cells) :
            notebook.cells[i].cell_type = "markdown" =>
                notebook.cells[i].source # EmptyStr

====
